---- MODULE Spec2Model ----
(***************************************************************************)
(* Model of backend/ai_generator.py: AIGenerator.generate_response and the *)
(* bounded multi-round tool-calling loop behind it                         *)
(* (_handle_sequential_tool_calls, _execute_tools, _make_final_call).      *)
(*                                                                         *)
(* One behaviour is one generate_response invocation.  The completion      *)
(* endpoint (client.messages.create) and the tool manager are external:    *)
(* every answer they can give is a nondeterministic choice.  The model     *)
(* stops at each external call, so a state is "a request is in flight" or  *)
(* "a tool is about to be executed".                                       *)
(*                                                                         *)
(* Strings produced by the outside world are kept symbolic and distinct:   *)
(* the text / tool-use id / tool input of part i of the response to call c *)
(* carries the tag c, i, so that two different parts never compare equal.  *)
(***************************************************************************)
EXTENDS Integers, Sequences, FiniteSets, TLC

\* ------------------------------------------------------------------ bounds
\* largest number of content parts in one endpoint response
MaxParts == 2

\* generate_response: max_rounds: int = 2.  The max_rounds arguments tried
\* run from MinRounds (the loop is skipped for <= 0) to the default.
DefaultMaxRounds == 2
MinRounds == 0 - 1

VARIABLES
    pc,            \* position of the invocation
    tools,         \* argument tools: "none" (None), "empty" ([]), "decl" (non-empty list)
    tool_manager,  \* argument tool_manager: TRUE when supplied, FALSE when None
    max_rounds,    \* argument max_rounds
    messages,      \* local messages of _handle_sequential_tool_calls / initial_messages
    round_count,   \* local round_count
    response,      \* the response being processed by the loop body
    idx,           \* position of the for loop of _execute_tools in response.content
    tool_results,  \* local tool_results of _execute_tools
    calls,         \* requests received by client.messages.create, in order
    replies,       \* what the endpoint did with each request, in order
    executed,      \* tool_manager.execute_tool calls, in order
    result,        \* what generate_response returned or raised
    earlier,       \* whether an invocation before this one on the same instance was busy
    me,            \* the thread that is running: the variables above are its frame
    parked,        \* the frame of the other thread inside generate_response, if any
    last_sources,  \* the citation list of the search tool, one for all queries
    recent,        \* the latest execute call of the search tool
    query,         \* RAGSystem.query: where each query and its caller stand
    conversation_history,  \* argument conversation_history: "none" (None), "empty" (""), "text"
    base_params    \* self.base_params

\* what no step inside one invocation assigns
outside == <<earlier, me, parked, last_sources, recent, query, conversation_history>>

vars == <<pc, tools, tool_manager, max_rounds, messages, round_count, response,
          idx, tool_results, calls, replies, executed, result, outside, base_params>>

\* ------------------------------------------------------------ data values
NoValue == [kind |-> "none"]

\* the query string; a string content is the one-text-part content
QueryText == <<"query", me, 0>>

TextPart(t) == [type |-> "text", text |-> t]

ToolUsePart(id, name, input) ==
    [type |-> "tool_use", id |-> id, name |-> name, input |-> input]

\* what the endpoint may put at one position of a response
PartKinds == {"text", "tool_known", "tool_unknown"}

RegisteredTool == "search_course_content"
UnregisteredTool == "no_such_tool"

\* part i of the response to call c
MkPart(c, i, k) ==
    IF k = "text" THEN TextPart(<<"text", c, i>>)
    ELSE ToolUsePart(<<"toolu", c, i>>,
                     IF k = "tool_known" THEN RegisteredTool ELSE UnregisteredTool,
                     <<"args", c, i>>)

KindSeqs == UNION {[1..n -> PartKinds] : n \in 0..MaxParts}

StopReasons == {"tool_use", "end_turn"}

MkResponse(c, ks, stop) ==
    [content |-> [i \in 1..Len(ks) |-> MkPart(c, i, ks[i])], stop_reason |-> stop]

\* ------------------------------------------------------ pure code pieces
\* truthiness of the tools argument: None and [] are falsy
ToolsTruthy(t) == t = "decl"

\* mutant of UsesToolPath: one of the two is enough
UsesToolPath_Either(t, tm) == ToolsTruthy(t) \/ tm

\* generate_response, line 96: if tools and tool_manager
UsesToolPath(t, tm) == ToolsTruthy(t) /\ tm

\* line 93: initial_messages = [{"role": "user", "content": query}]
InitialMessages == << [role |-> "user", content |-> <<TextPart(QueryText)>>] >>

\* the text of a non-empty conversation_history, unlike every other text
HistoryText == <<"history", 0, 0>>

\* the values of the argument conversation_history
Histories == {"none", "empty", "text"}

\* line 87: if conversation_history (None and "" are falsy)
HistoryTruthy(h) == h = "text"

\* mutant of SystemContent: the history is left out of the system prompt
SystemContent_WithoutHistory(h) == <<"SYSTEM_PROMPT">>

\* lines 85-89: SYSTEM_PROMPT alone, or SYSTEM_PROMPT, the literal
\* "\n\nPrevious conversation:\n" and the history, in that order
SystemContent(h) ==
    IF HistoryTruthy(h)
      THEN <<"SYSTEM_PROMPT", "\n\nPrevious conversation:\n", HistoryText>>
      ELSE <<"SYSTEM_PROMPT">>

\* lines 60-64: self.base_params as __init__ builds it
InitialBaseParams == [model |-> "self.model", temperature |-> 0, max_tokens |-> 800]

\* mutant of BaseParamsAfterCall: the request is built in self.base_params itself
BaseParamsAfterCall_BuiltInPlace(bp, request) ==
    [model |-> bp.model, temperature |-> bp.temperature, max_tokens |-> bp.max_tokens,
     messages |-> request.messages, system |-> request.system]

\* lines 102-106, 131-137, 215-219: {**self.base_params, ...} is a new dict;
\* self.base_params is as it was
BaseParamsAfterCall(bp, request) == bp

\* A request as client.messages.create receives it.  site is the call site
\* (line 108, 141 or 223); has_tools and tool_choice tell whether the keyword
\* arguments tools and tool_choice are present, tools is the value of tools
\* when present; model, temperature and max_tokens come from self.base_params.

\* mutant of PlainParams: the tool declarations are sent on the no-tools path
PlainParams_DeclaresTools(msgs) ==
    [site |-> "plain", messages |-> msgs, has_tools |-> TRUE, tool_choice |-> "auto",
     tools |-> tools, system |-> SystemContent(conversation_history),
     model |-> base_params.model, temperature |-> base_params.temperature,
     max_tokens |-> base_params.max_tokens]

\* lines 102-108: base_params, messages, system
PlainParams(msgs) ==
    [site |-> "plain", messages |-> msgs, has_tools |-> FALSE, tool_choice |-> "absent",
     tools |-> "absent", system |-> SystemContent(conversation_history),
     model |-> base_params.model, temperature |-> base_params.temperature,
     max_tokens |-> base_params.max_tokens]

\* mutant of ToolParams: after the first round no declarations are sent
ToolParams_DeclarationsDropped(msgs) ==
    [site |-> "loop", messages |-> msgs, has_tools |-> TRUE, tool_choice |-> "auto",
     tools |-> IF Len(msgs) > 1 THEN "empty" ELSE tools,
     system |-> SystemContent(conversation_history),
     model |-> base_params.model, temperature |-> base_params.temperature,
     max_tokens |-> base_params.max_tokens]

\* lines 131-141: base_params, messages, system, tools, tool_choice auto
ToolParams(msgs) ==
    [site |-> "loop", messages |-> msgs, has_tools |-> TRUE, tool_choice |-> "auto",
     tools |-> tools, system |-> SystemContent(conversation_history),
     model |-> base_params.model, temperature |-> base_params.temperature,
     max_tokens |-> base_params.max_tokens]

\* mutant of FinalParams: tool_choice is left in the final request
FinalParams_KeepsToolChoice(msgs) ==
    [site |-> "final", messages |-> msgs, has_tools |-> FALSE, tool_choice |-> "auto",
     tools |-> "absent", system |-> SystemContent(conversation_history),
     model |-> base_params.model, temperature |-> base_params.temperature,
     max_tokens |-> base_params.max_tokens]

\* lines 215-223: base_params, messages, system; intentionally no tools
FinalParams(msgs) ==
    [site |-> "final", messages |-> msgs, has_tools |-> FALSE, tool_choice |-> "absent",
     tools |-> "absent", system |-> SystemContent(conversation_history),
     model |-> base_params.model, temperature |-> base_params.temperature,
     max_tokens |-> base_params.max_tokens]

\* mutant of FirstPartText: the text of the last content block is taken
FirstPartText_LastPart(resp) ==
    IF Len(resp.content) = 0
      THEN [kind |-> "exception", desc |-> <<"IndexError", 0>>]
    ELSE IF resp.content[Len(resp.content)].type # "text"
      THEN [kind |-> "exception", desc |-> <<"AttributeError", 0>>]
    ELSE [kind |-> "text", text |-> resp.content[Len(resp.content)].text]

\* response.content[0].text: the text, or the exception the expression raises
\* (IndexError on an empty content, AttributeError on a block without .text)
FirstPartText(resp) ==
    IF Len(resp.content) = 0
      THEN [kind |-> "exception", desc |-> <<"IndexError", 0>>]
    ELSE IF resp.content[1].type # "text"
      THEN [kind |-> "exception", desc |-> <<"AttributeError", 0>>]
    ELSE [kind |-> "text", text |-> resp.content[1].text]

\* line 163: f"Error during tool calling: {str(e)}"
LoopErrorText(e) == [kind |-> "error", prefix |-> "Error during tool calling: ", desc |-> e]

\* line 226: f"Error generating final response: {str(e)}"
FinalErrorText(e) == [kind |-> "error", prefix |-> "Error generating final response: ", desc |-> e]

\* mutant of ToolErrorText: the description alone, without the prefix
ToolErrorText_NoPrefix(e) == [kind |-> "tool_error", prefix |-> "", desc |-> e]

\* line 199: f"Error executing tool: {str(e)}"
ToolErrorText(e) == [kind |-> "tool_error", prefix |-> "Error executing tool: ", desc |-> e]

\* mutant of ToolResultPart: the result is tagged with the wrong attribute
ToolResultPart_WrongId(block, content) ==
    [type |-> "tool_result", tool_use_id |-> block.input, content |-> content]

\* lines 189-193 and 196-200: the tool_result block of one tool_use block
ToolResultPart(block, content) ==
    [type |-> "tool_result", tool_use_id |-> block.id, content |-> content]

\* the description carried by the exception a failed call of request c raises
TransportError(c) == <<"transport", c>>

\* the endpoint answers at most DefaultMaxRounds + 1 requests of one invocation
TagStride == DefaultMaxRounds + 2

\* what tells the response to the latest request of the running thread from
\* every other response: thread and position of the request
CallTag == me * TagStride + Len(calls)

\* ------------------------------------------------------------------- Init
\* generate_response is entered with conversation_history = h
Entry(h) ==
    /\ pc = "start"
    /\ tools \in {"none", "empty", "decl"}
    /\ tool_manager \in BOOLEAN
    /\ max_rounds \in MinRounds..DefaultMaxRounds
    /\ messages = <<>>
    /\ round_count = 0
    /\ response = NoValue
    /\ idx = 0
    /\ tool_results = <<>>
    /\ calls = <<>>
    /\ replies = <<>>
    /\ executed = <<>>
    /\ result = NoValue
    /\ earlier = "none"
    /\ me = 0
    /\ parked = NoValue
    /\ last_sources = <<>>
    /\ recent = NoValue
    /\ query = NoValue
    /\ conversation_history = h
    /\ base_params = InitialBaseParams

\* an invocation without conversation history
Init == Entry("none")

\* an invocation with or without conversation history
HistInit == \E h \in Histories : Entry(h)

\* --------------------------------------------------------------- actions
\* mutant of LoopCondition: the off-by-one test round_count <= max_rounds
LoopCondition_OffByOne(rc, mr) == rc <= mr

\* mutant of LoopCondition: the body runs once before the test counts
LoopCondition_AtLeastOnce(rc, mr) == rc < mr \/ rc = 0

\* line 129: while round_count < max_rounds
LoopCondition(rc, mr) == rc < mr

\* mutant of RequestAtLoopTest: the call after the loop still declares the tools
RequestAtLoopTest_AlwaysTools(msgs, rc, mr) == ToolParams(msgs)

\* The request made when control reaches the loop test with messages msgs:
\* the call of lines 131-141 when the test holds, else the call of
\* _make_final_call (lines 166, 215-223).
RequestAtLoopTest(msgs, rc, mr) ==
    IF LoopCondition(rc, mr) THEN ToolParams(msgs) ELSE FinalParams(msgs)

PcAtLoopTest(rc, mr) == IF LoopCondition(rc, mr) THEN "loop_wait" ELSE "final_wait"

\* mutant of InitialRoundCount: the counter is kept from the invocation before
InitialRoundCount_Stale == round_count

\* line 127: round_count = 0
InitialRoundCount == 0

\* generate_response up to its first request (lines 86-108; on the tool path
\* lines 126-141, or 126-129, 166, 215-223 when the loop is not entered)
GenerateResponse ==
    /\ pc = "start"
    /\ messages' = InitialMessages
    /\ IF UsesToolPath(tools, tool_manager)
         THEN /\ round_count' = InitialRoundCount
              /\ calls' = Append(calls, RequestAtLoopTest(InitialMessages, InitialRoundCount,
                                                          max_rounds))
              /\ pc' = PcAtLoopTest(InitialRoundCount, max_rounds)
         ELSE /\ calls' = Append(calls, PlainParams(InitialMessages))
              /\ pc' = "plain_wait"
              /\ UNCHANGED round_count
    /\ UNCHANGED <<outside, tools, tool_manager, max_rounds, response, idx, tool_results,
                   replies, executed, result>>
    /\ base_params' = BaseParamsAfterCall(base_params, calls'[Len(calls')])

\* line 108 returns a response; line 109 returns response.content[0].text.
\* Nothing catches an exception here: it leaves generate_response.
PlainRespond ==
    /\ pc = "plain_wait"
    /\ \E ks \in KindSeqs, stop \in StopReasons :
         LET resp == MkResponse(CallTag, ks, stop)
             t == FirstPartText(resp)
         IN /\ replies' = Append(replies, [kind |-> "response", response |-> resp])
            /\ response' = resp
            /\ IF t.kind = "text"
                 THEN /\ result' = t
                      /\ pc' = "done"
                 ELSE /\ result' = [kind |-> "raised", desc |-> t.desc]
                      /\ pc' = "raised"
    /\ UNCHANGED <<outside, base_params, tools, tool_manager, max_rounds, messages, round_count, idx,
                   tool_results, calls, executed>>

\* what generate_response does with an exception of the call of line 108:
\* no try encloses the call, the exception reaches the caller
PlainFailure(e) == [pc |-> "raised", result |-> [kind |-> "raised", desc |-> e]]

\* line 108 raises
PlainFail ==
    /\ pc = "plain_wait"
    /\ replies' = Append(replies, [kind |-> "failure", desc |-> TransportError(Len(calls))])
    /\ result' = PlainFailure(TransportError(Len(calls))).result
    /\ pc' = PlainFailure(TransportError(Len(calls))).pc
    /\ UNCHANGED <<outside, base_params, tools, tool_manager, max_rounds, messages, round_count, response,
                   idx, tool_results, calls, executed>>

\* mutant of LoopFailure: the handler leaves the loop instead of returning, so
\* the final call is still made
LoopFailure_FallsThrough(e, cs, msgs) ==
    [pc |-> "final_wait", result |-> NoValue, calls |-> Append(cs, FinalParams(msgs))]

\* mutant of LoopFailure: no handler, the exception leaves generate_response
LoopFailure_Uncaught(e, cs, msgs) ==
    [pc |-> "raised", result |-> [kind |-> "raised", desc |-> e], calls |-> cs]

\* lines 161-163: what the loop does with an exception e of the call of line
\* 141, cs being the requests made so far: it returns the error text
LoopFailure(e, cs, msgs) == [pc |-> "done", result |-> LoopErrorText(e), calls |-> cs]

\* line 141 raises
LoopFail ==
    /\ pc = "loop_wait"
    /\ replies' = Append(replies, [kind |-> "failure", desc |-> TransportError(Len(calls))])
    /\ LET after == LoopFailure(TransportError(Len(calls)), calls, messages)
       IN /\ result' = after.result
          /\ pc' = after.pc
          /\ calls' = after.calls
    /\ UNCHANGED <<outside, base_params, tools, tool_manager, max_rounds, messages, round_count, response,
                   idx, tool_results, executed>>

\* mutant of WantsTools: the stop_reason is ignored, tool_use blocks decide
WantsTools_AnyToolUseBlock(resp) ==
    \E j \in 1..Len(resp.content) : resp.content[j].type = "tool_use"

\* mutant of WantsTools: every response is handed to _execute_tools
WantsTools_Always(resp) == TRUE

\* line 147: if response.stop_reason == "tool_use"
WantsTools(resp) == resp.stop_reason = "tool_use"

\* lines 141-149, 157-163: a response arrives and is appended as the assistant
\* message; with stop_reason tool_use _execute_tools starts (line 179),
\* otherwise content[0].text is returned, an exception of that expression
\* being caught at line 161.
LoopRespond ==
    /\ pc = "loop_wait"
    /\ \E ks \in KindSeqs, stop \in StopReasons :
         LET resp == MkResponse(CallTag, ks, stop)
             t == FirstPartText(resp)
         IN /\ replies' = Append(replies, [kind |-> "response", response |-> resp])
            /\ response' = resp
            /\ messages' = Append(messages, [role |-> "assistant", content |-> resp.content])
            /\ IF WantsTools(resp)
                 THEN /\ idx' = 1
                      /\ tool_results' = <<>>
                      /\ pc' = "exec"
                      /\ UNCHANGED result
                 ELSE /\ result' = IF t.kind = "text" THEN t ELSE LoopErrorText(t.desc)
                      /\ pc' = "done"
                      /\ UNCHANGED <<idx, tool_results>>
    /\ UNCHANGED <<outside, base_params, tools, tool_manager, max_rounds, round_count, calls, executed>>

\* mutant of ToolUsesFrom: blocks naming an unregistered tool are passed over
ToolUsesFrom_KnownOnly(content, i) ==
    {j \in i..Len(content) : content[j].type = "tool_use" /\ content[j].name = RegisteredTool}

\* lines 181-182: the positions from i on whose block is a tool_use block
ToolUsesFrom(content, i) ==
    {j \in i..Len(content) : content[j].type = "tool_use"}

\* mutant of Min: the for loop starts at the last tool_use block
Min_Last(S) == CHOOSE x \in S : \A y \in S : x >= y

Min(S) == CHOOSE x \in S : \A y \in S : x <= y

\* tool_manager.execute_tool(name, **input): what the call can do.  A
\* registered tool returns its output or raises; for a name that is not
\* registered the manager returns a "not found" text.
ToolOutcomes(block) ==
    IF block.name = RegisteredTool
      THEN {[kind |-> "returned", content |-> [kind |-> "output", of |-> block.input]],
            [kind |-> "raised", desc |-> <<"tool failure", block.id>>]}
      ELSE {[kind |-> "returned", content |-> [kind |-> "not_found", of |-> block.name]]}

\* mutant of ResultsAfterExecution: the except branch swallows the failure
ResultsAfterExecution_SwallowError(results, block, outcome) ==
    IF outcome.kind = "returned"
      THEN Append(results, ToolResultPart(block, outcome.content))
      ELSE results

\* lines 183-200: tool_results after one execution; a result is appended
\* whether execute_tool returned (lines 189-193) or raised (lines 196-200)
ResultsAfterExecution(results, block, outcome) ==
    IF outcome.kind = "returned"
      THEN Append(results, ToolResultPart(block, outcome.content))
      ELSE Append(results, ToolResultPart(block, ToolErrorText(outcome.desc)))

\* lines 181-200: the for loop runs to the next tool_use block and executes it
ExecuteTool ==
    /\ pc = "exec"
    /\ ToolUsesFrom(response.content, idx) # {}
    /\ LET j == Min(ToolUsesFrom(response.content, idx))
           block == response.content[j]
       IN \E outcome \in ToolOutcomes(block) :
            /\ executed' = Append(executed,
                  [call |-> Len(calls), pos |-> j, id |-> block.id, name |-> block.name,
                   input |-> block.input, outcome |-> outcome.kind])
            /\ tool_results' = ResultsAfterExecution(tool_results, block, outcome)
            /\ idx' = j + 1
    /\ UNCHANGED <<outside, base_params, pc, tools, tool_manager, max_rounds, messages, round_count,
                   response, calls, replies, result>>

\* mutant of HasResults: an empty result list is taken for results
HasResults_EmptyCounts(results) == TRUE

\* mutant of HasResults: only the output of a tool that ran counts as a result
HasResults_SuccessOnly(results) ==
    \E r \in 1..Len(results) : results[r].content.kind = "output"

\* line 202 and lines 150-156: what the loop does with the value of
\* _execute_tools: "continue" after appending the results, or "break"
HasResults(results) == results # <<>>

\* mutant of NextRoundCount: the increment is forgotten
NextRoundCount_Forgotten(rc) == rc

\* mutant of NextRoundCount: the counter is advanced twice
NextRoundCount_Twice(rc) == rc + 2

\* line 152: round_count += 1
NextRoundCount(rc) == rc + 1

\* mutant of MessagesAfterRound: the conversation is rebuilt from the query
MessagesAfterRound_DropsHistory(msgs, results) ==
    Append(InitialMessages, [role |-> "user", content |-> results])

\* mutant of MessagesAfterRound: one user message per tool result
MessagesAfterRound_OnePerResult(msgs, results) ==
    msgs \o [k \in 1..Len(results) |-> [role |-> "user", content |-> <<results[k]>>]]

\* mutant of MessagesAfterRound: the results are appended as an assistant message
MessagesAfterRound_AsAssistant(msgs, results) ==
    Append(msgs, [role |-> "assistant", content |-> results])

\* line 151: messages.append({"role": "user", "content": tool_results})
MessagesAfterRound(msgs, results) ==
    Append(msgs, [role |-> "user", content |-> results])

\* lines 181, 202, 150-156, then the loop test and the next request: the for
\* loop has no tool_use block left
ExecuteToolsReturn ==
    /\ pc = "exec"
    /\ ToolUsesFrom(response.content, idx) = {}
    /\ IF HasResults(tool_results)
         THEN LET msgs == MessagesAfterRound(messages, tool_results)
              IN /\ messages' = msgs
                 /\ round_count' = NextRoundCount(round_count)
                 /\ calls' = Append(calls, RequestAtLoopTest(msgs, round_count', max_rounds))
                 /\ pc' = PcAtLoopTest(round_count', max_rounds)
         ELSE /\ calls' = Append(calls, FinalParams(messages))
              /\ pc' = "final_wait"
              /\ UNCHANGED <<messages, round_count>>
    /\ idx' = Len(response.content) + 1
    /\ UNCHANGED <<outside, tools, tool_manager, max_rounds, response, tool_results,
                   replies, executed, result>>
    /\ base_params' = BaseParamsAfterCall(base_params, calls'[Len(calls')])

\* lines 223-226: the final call returns; content[0].text is returned, an
\* exception of that expression being caught at line 225
FinalRespond ==
    /\ pc = "final_wait"
    /\ \E ks \in KindSeqs, stop \in StopReasons :
         LET resp == MkResponse(CallTag, ks, stop)
             t == FirstPartText(resp)
         IN /\ replies' = Append(replies, [kind |-> "response", response |-> resp])
            /\ response' = resp
            /\ result' = IF t.kind = "text" THEN t ELSE FinalErrorText(t.desc)
    /\ pc' = "done"
    /\ UNCHANGED <<outside, base_params, tools, tool_manager, max_rounds, messages, round_count, idx,
                   tool_results, calls, executed>>

\* line 223 raises: caught at line 225, the error text is returned (line 226)
FinalFail ==
    /\ pc = "final_wait"
    /\ replies' = Append(replies, [kind |-> "failure", desc |-> TransportError(Len(calls))])
    /\ result' = FinalErrorText(TransportError(Len(calls)))
    /\ pc' = "done"
    /\ UNCHANGED <<outside, base_params, tools, tool_manager, max_rounds, messages, round_count, response,
                   idx, tool_results, calls, executed>>

\* the invocation that is over completed a tool round, had a failed request
\* or raised
Busy ==
    \/ round_count > 0
    \/ pc = "raised"
    \/ \E i \in 1..Len(replies) : replies[i].kind = "failure"

\* lines 109, 159, 163, 166 (and the raise out of line 108): generate_response
\* is over and control is back in the caller.  The parameters are unbound
\* (shown at their defaults of lines 69-70); messages and round_count are
\* locals of the frame that is gone: what they held is there until the next
\* frame assigns them.
Return ==
    /\ pc \in {"done", "raised"}
    /\ pc' = "idle"
    /\ tools' = "none"
    /\ tool_manager' = FALSE
    /\ max_rounds' = DefaultMaxRounds
    /\ response' = NoValue
    /\ idx' = 0
    /\ tool_results' = <<>>
    /\ calls' = <<>>
    /\ replies' = <<>>
    /\ executed' = <<>>
    /\ result' = NoValue
    /\ earlier' = IF Busy THEN "busy" ELSE earlier
    /\ conversation_history' = "none"
    /\ UNCHANGED <<messages, round_count, me, parked, last_sources, recent, query,
                   base_params>>

\* lines 66-70: the caller calls generate_response again on the same
\* AIGenerator, with arguments of its choice
Invoke ==
    /\ pc = "idle"
    /\ tools' \in {"none", "empty", "decl"}
    /\ tool_manager' \in BOOLEAN
    /\ max_rounds' \in MinRounds..DefaultMaxRounds
    /\ pc' = "start"
    /\ UNCHANGED <<messages, round_count, response, idx, tool_results, calls, replies,
                   executed, result, outside, base_params>>

Next ==
    \/ GenerateResponse
    \/ PlainRespond
    \/ PlainFail
    \/ LoopRespond
    \/ LoopFail
    \/ ExecuteTool
    \/ ExecuteToolsReturn
    \/ FinalRespond
    \/ FinalFail

Spec == Init /\ [][Next]_vars

\* Every external call returns or raises, and the interpreter keeps running
\* the invocation: a step that is possible is eventually taken.
FairSpec == Spec /\ WF_vars(Next)

\* the frame of the running thread
Locals ==
    [me |-> me, pc |-> pc, tools |-> tools, tool_manager |-> tool_manager,
     max_rounds |-> max_rounds, messages |-> messages, round_count |-> round_count,
     response |-> response, idx |-> idx, tool_results |-> tool_results,
     calls |-> calls, replies |-> replies, executed |-> executed, result |-> result,
     conversation_history |-> conversation_history]

\* the frame of thread m entering generate_response(query, tools=t, tool_manager=tm, max_rounds=mr)
EntryFrame(m, t, tm, mr) ==
    [me |-> m, pc |-> "start", tools |-> t, tool_manager |-> tm,
     max_rounds |-> mr, messages |-> <<>>, round_count |-> 0,
     response |-> NoValue, idx |-> 0, tool_results |-> <<>>,
     calls |-> <<>>, replies |-> <<>>, executed |-> <<>>, result |-> NoValue,
     conversation_history |-> "none"]

\* mutant of ResumedMessages: one conversation for both threads
ResumedMessages_Shared(own, running) == running

\* line 126: messages is a local, a copy made by the frame: the thread that
\* resumes finds its own list, whatever the thread that ran did meanwhile
ResumedMessages(own, running) == own

\* the interpreter suspends the running thread and resumes the other one
\* where it stood; only self (lines 59-64: client, model, base_params, never
\* assigned after __init__) is common to both
Switch ==
    /\ parked # NoValue
    /\ parked.pc \notin {"done", "raised"}
    /\ parked' = Locals
    /\ me' = parked.me
    /\ pc' = parked.pc
    /\ tools' = parked.tools
    /\ tool_manager' = parked.tool_manager
    /\ max_rounds' = parked.max_rounds
    /\ messages' = ResumedMessages(parked.messages, messages)
    /\ round_count' = parked.round_count
    /\ response' = parked.response
    /\ idx' = parked.idx
    /\ tool_results' = parked.tool_results
    /\ calls' = parked.calls
    /\ replies' = parked.replies
    /\ executed' = parked.executed
    /\ result' = parked.result
    /\ conversation_history' = parked.conversation_history
    /\ UNCHANGED <<earlier, last_sources, recent, query, base_params>>

\* two threads enter generate_response on one AIGenerator: thread 0 with
\* tools and registry, thread 1 with or without them
ConcInit ==
    /\ pc = "start"
    /\ tools = "decl"
    /\ tool_manager = TRUE
    /\ max_rounds = 1
    /\ messages = <<>>
    /\ round_count = 0
    /\ response = NoValue
    /\ idx = 0
    /\ tool_results = <<>>
    /\ calls = <<>>
    /\ replies = <<>>
    /\ executed = <<>>
    /\ result = NoValue
    /\ earlier = "none"
    /\ me = 0
    /\ parked \in {EntryFrame(1, "none", FALSE, 1), EntryFrame(1, "decl", TRUE, 1)}
    /\ last_sources = <<>>
    /\ recent = NoValue
    /\ query = NoValue
    /\ conversation_history = "none"
    /\ base_params = InitialBaseParams

ConcNext ==
    \/ Next
    \/ Switch

\* two concurrent invocations on one AIGenerator instance
ConcSpec == ConcInit /\ [][ConcNext]_vars

\* one invocation, with or without conversation history
HistSpec == HistInit /\ [][Next]_vars

SeqNext ==
    \/ Next
    \/ Return
    \/ Invoke

\* invocation after invocation on one AIGenerator instance
SeqSpec == Init /\ [][SeqNext]_vars

\* ------------------------------------------- citations (RAGSystem.query)
MaxExecutes == 2
MaxMatches == 2

\* the queries that use the one search tool
Queries == {"q1", "q2"}

\* what the search collaborator gives one execute call
SearchOutcomes ==
    {[kind |-> "error", n |-> 0], [kind |-> "empty", n |-> 0]}
        \cup {[kind |-> "matches", n |-> n] : n \in 1..MaxMatches}

\* one CitationRecord per match of execute call k of query q
CitationsOf(q, k, n) == [j \in 1..n |-> <<"cite", q, k, j>>]

\* the tool's citation list after an execute call: replaced on one or more
\* matches; an error or zero matches returns a text and has no side effect
SourcesAfterExecute(sources, q, k, outcome) ==
    IF outcome.kind = "matches" THEN CitationsOf(q, k, outcome.n) ELSE sources

\* the optional filter arguments of execute: absent, or one value
CourseArgs == {<<>>, <<"Missing Course">>}
LessonArgs == {<<>>, <<99>>}

\* mutant of EmptyResultText: the filters are left out of the message
EmptyResultText_Unspecialised(course, lesson) == <<"No relevant content found", ".">>

\* the text execute returns on zero matches: the fixed message, then the
\* course filter if supplied, then the lesson filter if supplied
EmptyResultText(course, lesson) ==
    <<"No relevant content found">>
        \o (IF course # <<>> THEN <<" in course '", course[1], "'">> ELSE <<>>)
        \o (IF lesson # <<>> THEN <<" in lesson ", ToString(lesson[1])>> ELSE <<>>)
        \o <<".">>

\* the text execute returns: the collaborator's error text, the message for
\* zero matches, or one block per match
ExecuteText(outcome, course, lesson) ==
    IF outcome.kind = "error" THEN <<"error text">>
    ELSE IF outcome.kind = "empty" THEN EmptyResultText(course, lesson)
    ELSE [j \in 1..outcome.n |-> "block"]

\* mutant of SourcesAfterReset: the list is left as it is
SourcesAfterReset_Kept(sources) == sources

\* the tool's citation list after the caller cleared it
SourcesAfterReset(sources) == <<>>

\* the frame of generate_response, which the citation steps leave alone
frame ==
    <<pc, tools, tool_manager, max_rounds, messages, round_count, response, idx,
      tool_results, calls, replies, executed, result, earlier, me, parked,
      conversation_history, base_params>>

\* a query not yet made
IdleQuery ==
    [pc |-> "idle", execs |-> 0, own |-> <<>>, got |-> <<>>, reads |-> 0, clears |-> 0,
     overlapped |-> FALSE, failure |-> "none", error |-> "none"]

InProgress(q) == query[q].pc \in {"generating", "returned", "read"}

\* the caller makes a query: generate is called with the tool declarations
\* and the registry
QueryBegin(q) ==
    /\ query[q].pc = "idle"
    /\ query' = [p \in Queries |->
                    IF p = q
                      THEN [query[q] EXCEPT !.pc = "generating",
                                            !.overlapped = \E o \in Queries \ {q} : InProgress(o)]
                    ELSE IF InProgress(p) THEN [query[p] EXCEPT !.overlapped = TRUE]
                    ELSE query[p]]
    /\ UNCHANGED <<last_sources, recent, frame>>

\* generate dispatches a ToolUse of the query to the search tool
ToolExecute(q) ==
    /\ query[q].pc = "generating"
    /\ query[q].execs < MaxExecutes
    /\ \E outcome \in SearchOutcomes, course \in CourseArgs, lesson \in LessonArgs :
         LET k == query[q].execs + 1
         IN /\ last_sources' = SourcesAfterExecute(last_sources, q, k, outcome)
            /\ recent' = [q |-> q, k |-> k, kind |-> outcome.kind, n |-> outcome.n,
                          course |-> course, lesson |-> lesson,
                          text |-> ExecuteText(outcome, course, lesson)]
            /\ query' = [query EXCEPT ![q].execs = k,
                                      ![q].own = SourcesAfterExecute(@, q, k, outcome)]
    /\ UNCHANGED frame

\* generate returns the answer of the query
GenerateReturns(q) ==
    /\ query[q].pc = "generating"
    /\ query' = [query EXCEPT ![q].pc = "returned"]
    /\ UNCHANGED <<last_sources, recent, frame>>

\* the caller reads the citations
GetLastSources(q) ==
    /\ query[q].pc = "returned"
    /\ query' = [query EXCEPT ![q].pc = "read", ![q].got = last_sources,
                              ![q].reads = @ + 1]
    /\ UNCHANGED <<last_sources, recent, frame>>

\* the caller clears the citations and the query is over
ResetSources(q) ==
    /\ query[q].pc = "read"
    /\ last_sources' = SourcesAfterReset(last_sources)
    /\ query' = [query EXCEPT ![q].pc = "finished", ![q].clears = @ + 1]
    /\ UNCHANGED <<recent, frame>>

CiteInit ==
    /\ pc = "idle"
    /\ tools = "decl"
    /\ tool_manager = TRUE
    /\ max_rounds = DefaultMaxRounds
    /\ messages = <<>>
    /\ round_count = 0
    /\ response = NoValue
    /\ idx = 0
    /\ tool_results = <<>>
    /\ calls = <<>>
    /\ replies = <<>>
    /\ executed = <<>>
    /\ result = NoValue
    /\ earlier = "none"
    /\ me = 0
    /\ parked = NoValue
    /\ last_sources = <<>>
    /\ recent = NoValue
    /\ query = [q \in Queries |-> IdleQuery]
    /\ conversation_history = "none"
    /\ base_params = InitialBaseParams

CiteNext ==
    \/ \E q \in Queries : QueryBegin(q)
    \/ \E q \in Queries : ToolExecute(q)
    \/ \E q \in Queries : GenerateReturns(q)
    \/ \E q \in Queries : GetLastSources(q)
    \/ \E q \in Queries : ResetSources(q)

\* the queries of two callers against the one search tool, interleaved in
\* every way, one after the other included
CiteSpec == CiteInit /\ [][CiteNext]_vars

\* the calls of query outside the round loop that may raise
QuerySites == {"generate_response", "get_last_sources"}

\* mutant of QueryAfterFailure: query catches the failure and returns an answer
QueryAfterFailure_Absorbed(qr, site) == [qr EXCEPT !.pc = "finished"]

\* query has no handler around its calls: the exception raised at site leaves
\* query, which returns nothing
QueryAfterFailure(qr, site) == [qr EXCEPT !.pc = "raised", !.error = site]

\* generate raises instead of returning
GenerateRaises(q) ==
    /\ query[q].pc = "generating"
    /\ query' = [query EXCEPT
                     ![q] = QueryAfterFailure([@ EXCEPT !.failure = "generate_response"],
                                              "generate_response")]
    /\ UNCHANGED <<last_sources, recent, frame>>

\* the citation read after generate raises
GetLastSourcesRaises(q) ==
    /\ query[q].pc = "returned"
    /\ query' = [query EXCEPT
                     ![q] = QueryAfterFailure([@ EXCEPT !.failure = "get_last_sources"],
                                              "get_last_sources")]
    /\ UNCHANGED <<last_sources, recent, frame>>

FailNext ==
    \/ CiteNext
    \/ \E q \in Queries : GenerateRaises(q)
    \/ \E q \in Queries : GetLastSourcesRaises(q)

\* the queries of two callers, with collaborators of query that may raise
FailSpec == CiteInit /\ [][FailNext]_vars

Finished == pc \in {"done", "raised"}


\* ================================================================ claims
OnToolPath == UsesToolPath(tools, tool_manager)

\* the requests that carry tool declarations
ToolCalls == {i \in 1..Len(calls) : calls[i].has_tools}

Max(S) == CHOOSE x \in S : \A y \in S : x >= y

IsResponse(i) == i <= Len(replies) /\ replies[i].kind = "response"

IsFailure(i) == i <= Len(replies) /\ replies[i].kind = "failure"

\* request i was answered by a response whose stop_reason is tool_use
AskedTools(i) == IsResponse(i) /\ replies[i].response.stop_reason = "tool_use"

\* the tool_use blocks of the response to request i
ToolUsesOf(i) == ToolUsesFrom(replies[i].response.content, 1)

\* C1: with tools and registry supplied and max_rounds = N >= 1, whatever the
\* endpoint answers, at most N requests carry tool declarations and at most
\* N + 1 requests are made in all.
C1_CallBound ==
    (OnToolPath /\ max_rounds >= 1) =>
        /\ Cardinality(ToolCalls) <= max_rounds
        /\ Len(calls) <= max_rounds + 1

\* C1 witness: the endpoint asked for tools on every call with tools of a
\* max_rounds = 2 invocation, and all N + 1 = 3 requests were made
C1_Witness ==
    /\ OnToolPath /\ max_rounds = 2
    /\ Len(calls) = 3 /\ Cardinality(ToolCalls) = 2
    /\ \A i \in ToolCalls : AskedTools(i)
    /\ Finished

\* C2: for max_rounds = N >= 1, when the last request with tool declarations
\* was answered with stop_reason tool_use, exactly one more request follows
\* it, that request carries no tool declarations, and it is the last request
\* of the invocation.
C2_ForcedFinalCall ==
    (OnToolPath /\ max_rounds >= 1 /\ ToolCalls # {}) =>
        LET last == Max(ToolCalls)
        IN AskedTools(last) =>
              \/ pc = "exec" /\ Len(calls) = last
              \/ /\ Len(calls) = last + 1
                 /\ ~calls[last + 1].has_tools
                 /\ pc \in {"final_wait", "done"}
                 /\ (pc = "done" <=> Len(replies) = last + 1)

\* C2 witness: the second and last request with tools of a max_rounds = 2
\* invocation asked for tools, tools ran, and the single request after it was
\* answered
C2_Witness ==
    /\ OnToolPath /\ max_rounds = 2 /\ Finished
    /\ ToolCalls = {1, 2} /\ AskedTools(2) /\ ToolUsesOf(2) # {}
    /\ Len(calls) = 3 /\ IsResponse(3)


\* Steps the invocation can still take at most: every round costs at most
\* one response, one step per content block and one return of _execute_tools.
RoundCost == MaxParts + 3

RoundsLeft == IF max_rounds > round_count THEN max_rounds - round_count ELSE 0

Rank ==
    CASE pc = "start"      -> RoundCost * (RoundsLeft + 1)
      [] pc = "loop_wait"  -> RoundCost * RoundsLeft
      [] pc = "exec"       -> RoundCost * RoundsLeft - idx
      [] pc = "plain_wait" -> 1
      [] pc = "final_wait" -> 1
      [] OTHER             -> 0

\* C3: every invocation finishes, whatever the endpoint and the tools answer,
\* provided each external call returns or raises: the invocation is never
\* stuck before it has returned or raised, every step lowers a natural-number
\* rank (so no run is infinite, even when the model asks for tools on every
\* call), and hence it eventually finishes.
C3_Terminates ==
    /\ [](Rank >= 0 /\ (Finished \/ ENABLED Next))
    /\ [][Rank' < Rank]_vars
    /\ <>Finished

\* C3 witness: a max_rounds = 2 invocation has finished although every call
\* with tools asked for tools again
C3_Witness ==
    /\ Finished /\ OnToolPath /\ max_rounds = 2
    /\ ToolCalls = {1, 2} /\ AskedTools(1) /\ AskedTools(2)
    /\ ToolUsesOf(1) # {} /\ ToolUsesOf(2) # {}


\* request i carried tool declarations and was answered by a response whose
\* stop_reason is not tool_use
AnsweredDone(i) ==
    /\ calls[i].has_tools
    /\ IsResponse(i) /\ replies[i].response.stop_reason # "tool_use"

\* C4: when a request with tool declarations is answered with a stop_reason
\* other than tool_use the invocation ends at once, however many rounds
\* remain: no request follows and no tool_use block of that response is
\* executed; in particular a first answer of that kind leaves exactly one
\* request and no tool execution at all.
C4_DoneEndsInvocation ==
    \A i \in 1..Len(replies) :
        AnsweredDone(i) =>
            /\ pc = "done"
            /\ Len(calls) = i
            /\ \A k \in 1..Len(executed) : executed[k].call < i
            /\ (i = 1 => executed = <<>>)

\* C4 witness: max_rounds = 2, one round done, one round left; the second
\* answer has stop_reason end_turn and holds a tool_use block
C4_Witness ==
    /\ OnToolPath /\ max_rounds = 2 /\ round_count = 1
    /\ Len(calls) = 2 /\ AnsweredDone(2) /\ ToolUsesOf(2) # {}


IsToolUse(part) == part.type = "tool_use"

\* the ids of the tool_use blocks of a content, in order
ToolUseIds(content) ==
    LET uses == SelectSeq(content, IsToolUse)
    IN [k \in 1..Len(uses) |-> uses[k].id]

\* the message at position m of msgs is a user message made of tool_result
\* blocks only, carrying exactly the ids `ids`, in that order
AnswersInOrder(msgs, m, ids) ==
    /\ m <= Len(msgs)
    /\ msgs[m].role = "user"
    /\ Len(msgs[m].content) = Len(ids)
    /\ \A k \in 1..Len(ids) :
          /\ msgs[m].content[k].type = "tool_result"
          /\ msgs[m].content[k].tool_use_id = ids[k]
    /\ \A k \in 1..Len(ids) :
          Cardinality({r \in 1..Len(msgs[m].content) :
                          msgs[m].content[r].tool_use_id = ids[k]}) = 1

Paired(msgs) ==
    \A m \in 1..Len(msgs) :
        (msgs[m].role = "assistant" /\ ToolUseIds(msgs[m].content) # <<>>) =>
            AnswersInOrder(msgs, m + 1, ToolUseIds(msgs[m].content))

\* C5: pairing invariant.  In the conversation of every request made, each
\* tool_use block of an assistant message is answered by exactly one
\* tool_result block with the same tool_use_id, in the user message right
\* after that assistant message, the results standing in the order of the
\* tool_use blocks; also when executions of the round failed.
C5_Pairing ==
    \A c \in 1..Len(calls) : Paired(calls[c].messages)

\* C5 witness: a request was made after a round with two tool_use blocks, the
\* first of which failed and the second of which returned
C5_Witness ==
    /\ Len(calls) = 2 /\ Len(calls[2].messages) = 3
    /\ Len(ToolUseIds(calls[2].messages[2].content)) = 2
    /\ calls[2].messages[3].content[1].content.kind = "tool_error"
    /\ calls[2].messages[3].content[2].content.kind = "output"


\* execution k failed: the tool raised, or no tool of that name exists
FailedExecution(k) ==
    executed[k].outcome = "raised" \/ executed[k].name = UnregisteredTool

\* the conversation msgs ends with a user message that holds the tool_result
\* of execution k; for a tool that raised its content is the text
\* "Error executing tool: " followed by the failure description
CarriesResultOf(msgs, k) ==
    /\ msgs # <<>>
    /\ msgs[Len(msgs)].role = "user"
    /\ \E r \in 1..Len(msgs[Len(msgs)].content) :
          LET part == msgs[Len(msgs)].content[r]
          IN /\ part.type = "tool_result"
             /\ part.tool_use_id = executed[k].id
             /\ executed[k].outcome = "raised" =>
                   /\ part.content.kind = "tool_error"
                   /\ part.content.prefix = "Error executing tool: "
                   /\ part.content.desc = <<"tool failure", executed[k].id>>
             /\ executed[k].outcome # "raised" => part.content.kind = "not_found"

C7_EveryTransportFailureCaught ==
    \A i \in 1..Len(replies) :
        IsFailure(i) =>
            /\ pc = "done"
            /\ result.kind = "error"
            /\ result.desc = replies[i].desc

\* C8: a failed request is never retried: once a request has failed, the
\* invocation makes no further request (the forced final call included),
\* executes no further tool and takes no further step.
C8_NoRetry ==
    \A i \in 1..Len(replies) :
        IsFailure(i) =>
            /\ Len(calls) = i /\ Len(replies) = i
            /\ \A k \in 1..Len(executed) : executed[k].call < i
            /\ Finished /\ ~ENABLED Next

\* C8 witness: max_rounds = 2; after one completed tool round the second
\* request with tools failed, with a round and the final call still ahead
C8_Witness ==
    /\ OnToolPath /\ max_rounds = 2 /\ round_count = 1
    /\ executed # <<>>
    /\ Len(calls) = 2 /\ calls[2].has_tools /\ IsFailure(2)


\* protocol anomaly at request i: a request with tools was answered with
\* stop_reason tool_use by a response without any tool_use block
Anomaly(i) ==
    calls[i].has_tools /\ AskedTools(i) /\ ToolUsesOf(i) = {}

C10_ToolsWithToolChoice ==
    \A i \in 1..Len(calls) :
        /\ calls[i].site = "loop" => (calls[i].has_tools /\ calls[i].tool_choice = "auto")
        /\ calls[i].site = "final" => (~calls[i].has_tools /\ calls[i].tool_choice = "absent")
        /\ calls[i].has_tools <=> calls[i].tool_choice # "absent"

\* C10 witness: two requests from inside the loop and the final request
\* after it have been made
C10_Witness ==
    /\ Len(calls) = 3
    /\ calls[1].site = "loop" /\ calls[2].site = "loop" /\ calls[3].site = "final"

\* the conversation that holds the query and nothing else
QueryOnly == << [role |-> "user", content |-> << [type |-> "text", text |-> QueryText] >>] >>

\* the response to request i has a first content block, and it is a text block
FirstIsText(i) ==
    /\ IsResponse(i)
    /\ replies[i].response.content # <<>>
    /\ replies[i].response.content[1].type = "text"

\* C11: no-tools path.  Called with neither tool declarations nor a registry,
\* generate_response makes exactly one request, without tool declarations,
\* whose conversation is the single user message holding the query; no tool
\* is executed; the answer returned is the text of that response (the text
\* of its first content block).
C11_NoToolsPath ==
    (tools = "none" /\ ~tool_manager /\ pc # "start") =>
        /\ Len(calls) = 1
        /\ calls[1].site = "plain" /\ ~calls[1].has_tools
        /\ calls[1].tool_choice = "absent"
        /\ calls[1].messages = QueryOnly
        /\ executed = <<>>
        /\ pc \in {"plain_wait", "done", "raised"}
        /\ pc = "done" =>
              /\ FirstIsText(1)
              /\ result = [kind |-> "text", text |-> replies[1].response.content[1].text]
        /\ FirstIsText(1) => pc = "done"

\* C11 witness: the single request of the no-tools path was answered and the
\* text of the answer returned
C11_Witness ==
    /\ tools = "none" /\ ~tool_manager /\ pc = "done"
    /\ Len(calls) = 1 /\ Len(replies) = 1
    /\ result = [kind |-> "text", text |-> <<"text", 1, 1>>]

\* the positions of the text blocks of a content list
TextPositions(content) == {j \in 1..Len(content) : content[j].type = "text"}

\* the invocation is over and its last request was answered by a response
EndedByResponse == Finished /\ replies # <<>> /\ IsResponse(Len(replies))

\* C12: when a response ends the invocation (a response without stop_reason
\* tool_use inside the loop, the response to the final request, or the
\* response to the request of the no-tools path) and its content has a text
\* block, the answer returned is the text of the first text block, wherever
\* in the content that block stands.
C12_FirstTextPartReturned ==
    (EndedByResponse /\ TextPositions(replies[Len(replies)].response.content) # {}) =>
        LET content == replies[Len(replies)].response.content
        IN  /\ pc = "done"
            /\ result = [kind |-> "text", text |-> content[Min(TextPositions(content))].text]

\* the tool-result messages of the conversation, one per completed round
ToolResultMessages == {j \in 2..Len(messages) : messages[j].role = "user"}

\* the run C13 is about: tools and registry supplied, max_rounds >= 1, every
\* request answered by a response, every tool_use response with a tool_use block
RegularToolRun ==
    /\ OnToolPath /\ max_rounds >= 1 /\ pc # "start"
    /\ \A i \in 1..Len(replies) : IsResponse(i) /\ ~Anomaly(i)

C14_DegradedOnlyOnTransportFailure ==
    (pc = "done" /\ result.kind = "error") =>
        \E i \in 1..Len(replies) : IsFailure(i)

\* s is a prefix of t and shorter than t
StrictPrefix(s, t) == Len(s) < Len(t) /\ SubSeq(t, 1, Len(s)) = s

\* C15: within one invocation the conversation only grows at its end.  The
\* first request carries exactly one user message holding the query, and the
\* conversation of every later request has the conversation of the request
\* before it as a strict prefix; the conversation held by the invocation
\* extends the one of its last request.
C15_AppendOnly ==
    /\ Len(calls) >= 1 => calls[1].messages = QueryOnly
    /\ \A i \in 1..(Len(calls) - 1) : StrictPrefix(calls[i].messages, calls[i + 1].messages)
    /\ Len(calls) >= 1 =>
          \/ messages = calls[Len(calls)].messages
          \/ StrictPrefix(calls[Len(calls)].messages, messages)

\* C15 witness: three requests, the last one carrying the query, two
\* assistant messages and two tool-result messages
C15_Witness ==
    /\ Len(calls) = 3 /\ Len(calls[3].messages) = 5
    /\ Len(calls[2].messages) = 3 /\ Len(calls[1].messages) = 1

\* C16: conversation and round state are fresh in every invocation.  In any
\* sequence of invocations on one AIGenerator, the first request of each
\* invocation carries exactly one message, the query, and the invocation
\* starts with round_count = 0, which from then on counts the tool-result
\* messages of this invocation only, whatever the invocations before did.
C16_FreshPerInvocation ==
    pc \notin {"start", "idle"} =>
        /\ calls[1].messages = QueryOnly
        /\ OnToolPath =>
              /\ Len(calls) = 1 => round_count = 0
              /\ round_count = Cardinality(ToolResultMessages)
              /\ calls[1].site = IF max_rounds >= 1 THEN "loop" ELSE "final"
        /\ ~OnToolPath => calls[1].site = "plain"

\* C16 witness: an invocation that follows one with completed tool rounds or
\* a failure has made its first request, on the query alone, with round_count 0
C16_Witness ==
    /\ earlier = "busy" /\ OnToolPath /\ max_rounds >= 1
    /\ pc = "loop_wait" /\ Len(calls) = 1
    /\ calls[1].messages = QueryOnly /\ round_count = 0

\* the thread whose request a tagged value belongs to
TagOwner(c) == c \div TagStride

\* msgs is made of what the invocation with frame L put there: the query of
\* L, then for the i-th response to L its content as assistant message and,
\* after it, tool results that answer tool executions of L for that response
OwnConversation(msgs, L) ==
    /\ Len(msgs) >= 1
    /\ msgs[1] = [role |-> "user", content |-> <<TextPart(<<"query", L.me, 0>>)>>]
    /\ \A j \in 2..Len(msgs) :
          LET i == j \div 2
          IN IF j % 2 = 0
               THEN /\ msgs[j].role = "assistant"
                    /\ i <= Len(L.replies) /\ L.replies[i].kind = "response"
                    /\ msgs[j].content = L.replies[i].response.content
                    /\ \A k \in 1..Len(msgs[j].content) :
                          LET p == msgs[j].content[k]
                          IN TagOwner(IF p.type = "text" THEN p.text[2] ELSE p.id[2]) = L.me
               ELSE /\ msgs[j].role = "user"
                    /\ msgs[j].content # <<>>
                    /\ \A k \in 1..Len(msgs[j].content) :
                          /\ TagOwner(msgs[j].content[k].tool_use_id[2]) = L.me
                          /\ \E x \in 1..Len(L.executed) :
                                /\ L.executed[x].call = i
                                /\ L.executed[x].id = msgs[j].content[k].tool_use_id

\* the invocation with frame L is as it would be alone
FrameUntouched(L) ==
    L.pc # "start" =>
        /\ OwnConversation(L.messages, L)
        /\ \A i \in 1..Len(L.calls) : OwnConversation(L.calls[i].messages, L)
        /\ IF UsesToolPath(L.tools, L.tool_manager)
             THEN /\ L.round_count =
                        Cardinality({j \in 2..Len(L.messages) : L.messages[j].role = "user"})
                  /\ L.round_count <= L.max_rounds
                  /\ Len(L.calls) <= L.max_rounds + 1
                  /\ Cardinality({i \in 1..Len(L.calls) : L.calls[i].has_tools}) <= L.max_rounds
             ELSE Len(L.calls) = 1

\* C17: two invocations run concurrently on one AIGenerator.  However their
\* steps interleave, the conversation of each (the one it holds and the one
\* of each of its requests) is made of its own query, the responses to its
\* own requests and the results of its own tool executions only, its
\* round_count counts its own completed rounds, and it makes at most
\* max_rounds requests with tools and max_rounds + 1 requests in all.
C17_ConcurrentInvocationsIsolated ==
    /\ FrameUntouched(Locals)
    /\ parked # NoValue => FrameUntouched(parked)

\* C17 witness: both threads have completed a tool round and are over, each
\* with its query, one response and one tool-result message behind its final
\* request
C17_Witness ==
    /\ parked # NoValue
    /\ pc = "done" /\ parked.pc = "done"
    /\ round_count = 1 /\ parked.round_count = 1
    /\ Len(calls) = 2 /\ Len(parked.calls) = 2
    /\ Len(calls[2].messages) = 3 /\ Len(parked.calls[2].messages) = 3

\* the query has read the citations
HasRead(q) == query[q].pc \in {"read", "finished"}

\* C18: two queries run concurrently against the one search tool.  The
\* citation list the caller of a query reads after generate returned holds
\* citations of tool executions of that query only, and it is not empty when
\* the query's executions left citations behind (no other query's clear
\* emptied it first).
C18_CitationsOfOwnQueryOnly ==
    \A q \in Queries :
        HasRead(q) =>
            /\ \A j \in 1..Len(query[q].got) : query[q].got[j][2] = q
            /\ query[q].own # <<>> => query[q].got # <<>>

\* C19: after any sequence of execute calls the citation list of the tool
\* holds citations of the latest execute call only: what is in the list was
\* produced by the latest call, one record per match of that call.
C19_OnlyMostRecentExecute ==
    last_sources # <<>> =>
        /\ recent # NoValue
        /\ last_sources = CitationsOf(recent.q, recent.k, recent.n)

\* C20: for every query whose generate returns, the caller reads the
\* citations only after generate returned and clears them after reading,
\* each exactly once; a query that runs after the clear of the query before
\* it, with no other query beside it, and executes no tool reads an empty
\* citation list.
C20_ReadThenClearOnce ==
    \A q \in Queries :
        /\ query[q].reads = (IF HasRead(q) THEN 1 ELSE 0)
        /\ query[q].clears = (IF query[q].pc = "finished" THEN 1 ELSE 0)
        /\ (HasRead(q) /\ ~query[q].overlapped /\ query[q].execs = 0) => query[q].got = <<>>
        /\ (\A p \in Queries : ~InProgress(p)) => last_sources = <<>>

\* C20 witness: a query whose tool execution left citations was read and
\* cleared, and the query made after it, with no tool execution, has read an
\* empty list and cleared it
C20_Witness ==
    /\ query["q1"].pc = "finished" /\ query["q1"].got = CitationsOf("q1", 1, MaxMatches)
    /\ query["q2"].pc = "finished" /\ ~query["q2"].overlapped
    /\ query["q2"].execs = 0 /\ query["q2"].got = <<>>

\* the argument carries history text: it is neither None nor the empty string
HistoryPresent == conversation_history = "text"

\* the text parts of the messages of request i
MessageTexts(i) ==
    {calls[i].messages[j].content[p].text :
        <<j, p>> \in {jp \in (1..Len(calls[i].messages)) \X (1..MaxParts) :
                        /\ jp[2] <= Len(calls[i].messages[jp[1]].content)
                        /\ calls[i].messages[jp[1]].content[jp[2]].type = "text"}}

\* C21: every request of one invocation carries the same system prompt: the
\* fixed instruction block alone when there is no history text (None, or the
\* empty string), and the fixed block, then the literal header "Previous
\* conversation:", then the history text when there is one; the history text
\* is in no message of any request.
C21_SystemPromptCarriesHistory ==
    \A i \in 1..Len(calls) :
        /\ calls[i].system = calls[1].system
        /\ ~HistoryPresent => calls[i].system = <<"SYSTEM_PROMPT">>
        /\ HistoryPresent =>
              calls[i].system =
                  <<"SYSTEM_PROMPT", "\n\nPrevious conversation:\n", HistoryText>>
        /\ HistoryText \notin MessageTexts(i)

\* C21 witness: an invocation with history made a request with tools, ran a
\* tool round and made the final request
C21_Witness ==
    /\ HistoryPresent /\ Finished
    /\ Len(calls) = 2 /\ calls[1].site = "loop" /\ calls[2].site = "final"
    /\ round_count = 1

\* C22: every request, whatever its call site (the call without tools, the
\* calls of the rounds, the final call), carries the configured model,
\* temperature 0 and max_tokens 800, and self.base_params is after every
\* request what __init__ made it.
C22_FixedParameters ==
    /\ base_params = InitialBaseParams
    /\ \A i \in 1..Len(calls) :
          /\ calls[i].model = "self.model"
          /\ calls[i].temperature = 0
          /\ calls[i].max_tokens = 800

\* C22 witness: two requests of the loop and the final request were made and
\* answered
C22_Witness ==
    /\ Finished /\ Len(calls) = 3 /\ Len(replies) = 3
    /\ calls[1].site = "loop" /\ calls[2].site = "loop" /\ calls[3].site = "final"

\* C23: a failure outside the round loop is not absorbed: when generate
\* raises, or when the citation read after generate raises, query ends by
\* raising that failure to its caller and returns no answer; a query that
\* ended with an answer had no such failure.
C23_FailureOutsideLoopPropagates ==
    \A q \in Queries :
        /\ query[q].failure # "none" =>
              query[q].pc = "raised" /\ query[q].error = query[q].failure
        /\ query[q].pc = "finished" => query[q].failure = "none"

\* C23 witness: generate raised in one query, the citation read raised in
\* the other, after a tool execution, and both queries have raised
C23_Witness ==
    /\ query["q1"].failure = "generate_response" /\ query["q1"].pc = "raised"
    /\ query["q2"].failure = "get_last_sources" /\ query["q2"].pc = "raised"
    /\ query["q2"].execs > 0

\* C24: when the lookup of the content-search tool returns zero matches and
\* no error, execute returns the fixed message "No relevant content found"
\* specialised by exactly the filters supplied: neither, the course only, the
\* lesson only, or both; the four cases give four different texts.
C24_EmptyResultMessage ==
    /\ (recent # NoValue /\ recent.kind = "empty") =>
          recent.text =
              CASE recent.course = <<>> /\ recent.lesson = <<>> ->
                     <<"No relevant content found", ".">>
                [] recent.course # <<>> /\ recent.lesson = <<>> ->
                     <<"No relevant content found", " in course '", recent.course[1], "'", ".">>
                [] recent.course = <<>> /\ recent.lesson # <<>> ->
                     <<"No relevant content found", " in lesson ",
                       ToString(recent.lesson[1]), ".">>
                [] OTHER ->
                     <<"No relevant content found", " in course '", recent.course[1], "'",
                       " in lesson ", ToString(recent.lesson[1]), ".">>
    /\ \A c1, c2 \in CourseArgs, l1, l2 \in LessonArgs :
          <<c1 = <<>>, l1 = <<>>>> # <<c2 = <<>>, l2 = <<>>>> =>
              EmptyResultText(c1, l1) # EmptyResultText(c2, l2)

\* C24 witness: an execute call with both filters found nothing
C24_Witness ==
    /\ recent # NoValue /\ recent.kind = "empty"
    /\ recent.course # <<>> /\ recent.lesson # <<>>

\* the completed tool-use rounds: the requests with tools answered with
\* stop_reason tool_use whose tool_use blocks were executed and whose results
\* were appended, the next request being made on them
CompletedRounds ==
    {i \in 1..Len(replies) :
        /\ calls[i].has_tools /\ AskedTools(i) /\ ToolUsesOf(i) # {}
        /\ Len(calls) > i
        /\ calls[i + 1].messages[Len(calls[i + 1].messages)].role = "user"}

\* a step completes a round: the results of _execute_tools are appended
CompletesRound ==
    /\ pc = "exec" /\ tool_results # <<>>
    /\ messages' = Append(messages, [role |-> "user", content |-> tool_results])

\* C25: round_count starts at 0, is the number of completed tool-use rounds
\* (responses with stop_reason tool_use whose execution gave at least one
\* result, appended to the conversation) in every state, changes only by a
\* step that completes a round, which adds exactly one, never decreases, and
\* with max_rounds >= 1 stays within 0..max_rounds.
C25_RoundCount ==
    /\ [](/\ Len(replies) = 0 => round_count = 0
          /\ round_count = Cardinality(CompletedRounds)
          /\ round_count >= 0
          /\ max_rounds >= 1 => round_count <= max_rounds)
    /\ [][IF CompletesRound THEN round_count' = round_count + 1
                            ELSE round_count' = round_count]_vars

\* C25 witness: both rounds of a max_rounds = 2 invocation were completed
C25_Witness ==
    /\ OnToolPath /\ max_rounds = 2 /\ round_count = 2
    /\ Cardinality(CompletedRounds) = 2

\* msgs is the query followed by r rounds: for round k the assistant message
\* with the content of the response to request k, and right after it one
\* user message with one tool_result per tool_use block of that response
RoundShape(msgs, r) ==
    /\ Len(msgs) = 2 * r + 1
    /\ msgs[1] = QueryOnly[1]
    /\ \A k \in 1..r :
          /\ msgs[2 * k] = [role |-> "assistant", content |-> replies[k].response.content]
          /\ ToolUsesOf(k) # {}
          /\ AnswersInOrder(msgs, 2 * k + 1, ToolUseIds(replies[k].response.content))

\* C26: at every request that carries tool declarations the conversation has
\* exactly 2 * round_count + 1 messages: the query, then for each completed
\* round the assistant message with the response content and, right after
\* it, one single user message that holds all tool results of that round;
\* the step that ends a round appends that one message and no other.
C26_ConversationShape ==
    /\ [](\A i \in ToolCalls :
              /\ RoundShape(calls[i].messages, i - 1)
              /\ (i = Len(calls) /\ pc = "loop_wait") =>
                    /\ round_count = i - 1
                    /\ Len(messages) = 2 * round_count + 1
                    /\ messages = calls[i].messages)
    /\ [][(pc = "exec" /\ pc' # "exec" /\ tool_results # <<>>) =>
              messages' = Append(messages, [role |-> "user", content |-> tool_results])]_vars

\* C26 witness: the second request with tools is in flight after a round
\* with two tool_use blocks, whose two results are in one message
C26_Witness ==
    /\ pc = "loop_wait" /\ round_count = 1 /\ Len(messages) = 3
    /\ Len(messages[3].content) = 2 /\ calls[2].has_tools

\* execution k ran the tool_use block it is recorded for, with the name and
\* the input of that block
RanItsBlock(k) ==
    LET c == executed[k].call
    IN /\ IsResponse(c)
       /\ executed[k].pos \in ToolUsesOf(c)
       /\ LET block == replies[c].response.content[executed[k].pos]
          IN /\ executed[k].id = block.id
             /\ executed[k].name = block.name
             /\ executed[k].input = block.input

\* the positions of the blocks of the response to request c executed so far
ExecutedOf(c) == {executed[k].pos : k \in {n \in 1..Len(executed) : executed[n].call = c}}

\* C27: the tool_use blocks of one response are executed one at a time, in
\* the order they stand in the response content, each exactly once and with
\* its own name and input; every execution of a round is over before the
\* request of the next round is made.
C27_SequentialExecution ==
    /\ [](/\ \A k \in 1..Len(executed) : RanItsBlock(k)
          /\ \A k1, k2 \in 1..Len(executed) :
                k1 < k2 =>
                    \/ executed[k1].call < executed[k2].call
                    \/ /\ executed[k1].call = executed[k2].call
                       /\ executed[k1].pos < executed[k2].pos
          /\ \A c \in 1..Len(replies) :
                (calls[c].has_tools /\ AskedTools(c)) =>
                    IF Len(calls) > c
                      THEN ExecutedOf(c) = ToolUsesOf(c)
                      ELSE /\ pc = "exec"
                           /\ ExecutedOf(c) = {j \in ToolUsesOf(c) : j < idx})
    /\ [][executed' # executed =>
              /\ Len(executed') = Len(executed) + 1
              /\ SubSeq(executed', 1, Len(executed)) = executed
              /\ calls' = calls
              /\ executed'[Len(executed')].call = Len(calls)]_vars

\* C27 witness: two rounds, the first with two tool_use blocks, ran; the
\* three executions are in the log in the order of rounds and positions
C27_Witness ==
    /\ Len(calls) = 3 /\ Len(executed) = 3
    /\ executed[1].call = 1 /\ executed[1].pos = 1
    /\ executed[2].call = 1 /\ executed[2].pos = 2
    /\ executed[3].call = 2

\* the tool_result block made for execution k: in the list _execute_tools is
\* building, or in the user message appended after the round
ResultOf(k) ==
    LET c == executed[k].call
        r == Cardinality({j \in ToolUsesOf(c) : j <= executed[k].pos})
    IN IF Len(calls) > c
         THEN calls[c + 1].messages[2 * c + 1].content[r]
         ELSE tool_results[r]

\* what execute_tool returned to execution k
ReturnedTo(k) ==
    LET block == replies[executed[k].call].response.content[executed[k].pos]
    IN {o.content : o \in {x \in ToolOutcomes(block) : x.kind = "returned"}}

\* part is the tool_result that belongs to execution k
RightResult(k, part) ==
    /\ part.type = "tool_result"
    /\ part.tool_use_id = executed[k].id
    /\ executed[k].outcome = "raised" =>
          part.content =
              [kind |-> "tool_error", prefix |-> "Error executing tool: ",
               desc |-> <<"tool failure", executed[k].id>>]
    /\ executed[k].outcome = "returned" => part.content \in ReturnedTo(k)

\* C28: the tool_result made for an execution that raised carries the id of
\* its tool_use block and the content "Error executing tool: " followed by
\* the description of the failure; the tool_result made for an execution that
\* returned carries the id of its block and, as content, exactly what
\* execute_tool returned; every execution adds its one result at the end of
\* the list and leaves the results made before as they are.
C28_ToolResultContent ==
    /\ [](\A k \in 1..Len(executed) : RightResult(k, ResultOf(k)))
    /\ [][executed' # executed =>
              /\ Len(executed') = Len(executed) + 1
              /\ Len(tool_results') = Len(tool_results) + 1
              /\ SubSeq(tool_results', 1, Len(tool_results)) = tool_results]_vars

\* C28 witness: in one round the first tool raised and the second returned,
\* and the results are in the conversation of the next request
C28_Witness ==
    /\ Len(calls) = 2 /\ Len(executed) = 2
    /\ executed[1].outcome = "raised" /\ executed[2].outcome = "returned"
    /\ executed[2].name = RegisteredTool

\* the requests with tools answered with stop_reason tool_use: the responses
\* handed to _execute_tools
Dispatched == {c \in 1..Len(replies) : calls[c].has_tools /\ AskedTools(c)}

C30_DeclarationsUnchanged ==
    /\ [](\A i \in ToolCalls :
              /\ calls[i].tools = tools
              /\ calls[i].tools = calls[1].tools
              /\ calls[i].tools = "decl")
    /\ [][tools' = tools]_vars

\* C30 witness: the second request with tools was made after a round in which
\* a tool raised, and was answered
C30_Witness ==
    /\ ToolCalls = {1, 2} /\ IsResponse(2)
    /\ executed # <<>> /\ executed[1].outcome = "raised"

\* the responses that were not to be dispatched: those to a request without
\* tool declarations and those whose stop_reason is not tool_use
NotToDispatch == {c \in 1..Len(replies) : IsResponse(c) /\ c \notin Dispatched}

\* C31: a tool is executed only in reaction to the response to a request
\* with tool declarations whose stop_reason is tool_use.  The tool_use blocks
\* of a response with another stop_reason are never executed, the response
\* to the final request is never dispatched whatever its stop_reason and
\* content, and the responses dispatched are never more than max_rounds.
C31_ExecutionOnlyOnToolUse ==
    /\ [](/\ \A k \in 1..Len(executed) : executed[k].call \in Dispatched
          /\ \A c \in NotToDispatch : ExecutedOf(c) = {}
          /\ \A c \in 1..Len(calls) : calls[c].site = "final" => c \notin Dispatched
          /\ Cardinality(Dispatched) <= (IF max_rounds >= 1 THEN max_rounds ELSE 0)
          /\ pc = "exec" => Len(calls) \in Dispatched)
    /\ [][executed' # executed =>
              /\ pc = "exec"
              /\ calls[Len(calls)].site = "loop"
              /\ AskedTools(Len(calls))]_vars

\* C31 witness: with max_rounds = 1 one round ran; the response to the final
\* request has stop_reason tool_use and a tool_use block, and nothing of it
\* was executed
C31_Witness ==
    /\ OnToolPath /\ max_rounds = 1 /\ Finished
    /\ Len(calls) = 2 /\ calls[2].site = "final" /\ AskedTools(2)
    /\ ToolUseIds(replies[2].response.content) # <<>>
    /\ Len(executed) = 1 /\ executed[1].call = 1

\* C32: with tools and registry supplied generate_response never raises:
\* whatever fails after the first request was made (a request fails, a tool
\* fails, a response has an empty content or a first block that is not a
\* text block), the invocation ends by returning a string, the text of a
\* response or an error text.
C32_ToolPathNeverRaises ==
    /\ [](OnToolPath =>
              /\ pc # "raised"
              /\ result.kind # "raised"
              /\ Finished => result.kind \in {"text", "error"})
    /\ [][(OnToolPath /\ ~Finished /\ Finished') =>
              (pc' = "done" /\ result'.kind \in {"text", "error"})]_vars

\* C32 witness: a tool raised in the first round, the second request failed,
\* and an error text was returned
C32_Witness ==
    /\ OnToolPath /\ pc = "done" /\ result.kind = "error"
    /\ Len(executed) >= 1 /\ executed[1].outcome = "raised"
    /\ Len(calls) = 2 /\ IsFailure(2)

\* C33: the conversation of every request, the final request reached through
\* the break on a tool_use response without results included, ends with a
\* user message: no request is made on a conversation whose last message is
\* an assistant message.
C33_LastMessageIsUser ==
    \A i \in 1..Len(calls) :
        calls[i].messages[Len(calls[i].messages)].role = "user"

\* the roles of msgs are user, assistant, user, ... from the first message on
Alternates(msgs) ==
    \A j \in 1..Len(msgs) :
        msgs[j].role = IF j % 2 = 1 THEN "user" ELSE "assistant"

\* C34: in the conversation of every request the roles alternate, starting
\* with user: no two neighbouring messages have the same role, also after
\* failed tools and after the break on a tool_use response without results;
\* the conversation the invocation holds alternates as well.
C34_RolesAlternate ==
    /\ [](/\ \A i \in 1..Len(calls) : Alternates(calls[i].messages)
          /\ Alternates(messages))
    /\ [][Len(messages') > Len(messages) =>
              /\ Len(messages') = Len(messages) + 1
              /\ (messages # <<>> =>
                     messages'[Len(messages')].role # messages[Len(messages)].role)]_vars

\* C34 witness: the final request was made after a round whose tool raised
\* and a second tool_use response without a tool_use block
C34_Witness ==
    /\ Len(calls) = 3 /\ calls[3].site = "final" /\ Len(calls[3].messages) = 4
    /\ executed[1].outcome = "raised" /\ Anomaly(2)

\* C35: with tools and registry supplied and max_rounds <= 0 the loop is not
\* entered: exactly one request is made, it carries no tool declarations and
\* the query message alone, and no tool is executed, whatever the response.
C35_NonPositiveMaxRounds ==
    /\ []((OnToolPath /\ max_rounds <= 0) =>
              /\ executed = <<>>
              /\ round_count = 0
              /\ Len(calls) <= 1
              /\ pc # "start" =>
                    /\ Len(calls) = 1
                    /\ calls[1].site = "final"
                    /\ ~calls[1].has_tools /\ calls[1].tool_choice = "absent"
                    /\ calls[1].messages = QueryOnly
                    /\ pc \in {"final_wait", "done"})
    /\ [][(OnToolPath /\ max_rounds <= 0 /\ pc # "start") =>
              (calls' = calls /\ executed' = executed)]_vars

\* C35 witness: with max_rounds = 0 the one request was answered with
\* stop_reason tool_use and a tool_use block, and the invocation is over
\* with nothing executed
C35_Witness ==
    /\ OnToolPath /\ max_rounds = 0 /\ Finished
    /\ Len(calls) = 1 /\ AskedTools(1)
    /\ ToolUseIds(replies[1].response.content) # <<>>
    /\ executed = <<>>

\* the rounds in which every tool execution failed: the response to request
\* c was dispatched, it has tool_use blocks, each of them raised or named no
\* tool, and _execute_tools has returned
FailedRounds ==
    {c \in Dispatched :
        /\ ToolUseIds(replies[c].response.content) # <<>>
        /\ Len(calls) > c
        /\ \A k \in 1..Len(executed) : executed[k].call = c => FailedExecution(k)}

OneMissing ==
    \/ tools = "decl" /\ ~tool_manager
    \/ tools \in {"none", "empty"} /\ tool_manager

\* C37: the loop is entered only with both a non-empty list of declarations
\* and a registry.  When exactly one of them is missing the call without
\* tools is made: exactly one request, carrying no tool declarations, and no
\* tool is executed, whatever the response says.
C37_BothNeededForToolPath ==
    /\ [](/\ (\E i \in 1..Len(calls) : calls[i].site \in {"loop", "final"}) =>
                (tools = "decl" /\ tool_manager)
          /\ OneMissing =>
                /\ executed = <<>>
                /\ Len(calls) <= 1
                /\ pc # "start" =>
                      /\ Len(calls) = 1
                      /\ calls[1].site = "plain"
                      /\ ~calls[1].has_tools
                      /\ calls[1].tools = "absent" /\ calls[1].tool_choice = "absent")
    /\ [][(OneMissing /\ pc # "start") => (calls' = calls /\ executed' = executed)]_vars

\* C37 witness: declarations were supplied without a registry; the one
\* request was answered with stop_reason tool_use and a tool_use block after
\* a text block, and the text was returned with nothing executed
C37_Witness ==
    /\ tools = "decl" /\ ~tool_manager /\ pc = "done"
    /\ Len(calls) = 1 /\ AskedTools(1)
    /\ ToolUseIds(replies[1].response.content) # <<>>
    /\ executed = <<>>

====
